---- MODULE Spec2Model ----
(***************************************************************************)
(* tui-candlestick-chart: the viewport/cursor state machine                *)
(* (src/src/candlestick_chart_state.rs), the compositor                    *)
(* (src/src/candlestick_chart.rs, render: window bounds, visible slice and *)
(* the buffer cells it writes), Candle::new and Candle::render             *)
(* (src/src/candle.rs), YAxis::calc_y, Numeric::format and YAxis::render   *)
(* under the Accurate grid (src/src/y_axis.rs) and XAxis::render           *)
(* (src/src/x_axis.rs).                                                    *)
(*                                                                         *)
(* Option<T> is a sequence of length at most one: None is <<>>, Some(x)    *)
(* is <<x>>.  Timestamps are milliseconds; prices are integers (an         *)
(* order-preserving scaling of the finite reals the candles carry).        *)
(* Row coordinates, which the code holds in f64, are exact rationals with  *)
(* NaN and the two infinities kept apart; the rounding of f64 division is  *)
(* not modelled.  Strings are sequences of one-character strings.          *)
(***************************************************************************)
EXTENDS Integers, Sequences, FiniteSets, TLC

VARIABLES
    interval,          \* CandleStickChart.interval (seconds, an Interval tag)
    candles,           \* CandleStickChart.candles: timestamps, ascending
    area_width,        \* area.width handed to render
    info,              \* CandleStickChartState.info : Option<CandleStikcChartInfo>
    cursor_timestamp,  \* CandleStickChartState.cursor_timestamp : Option<i64>
    rendered_candles,  \* the slice the last accepted render drew (timestamps)
    needed,            \* Option<bool>: what is_needed_previous_candles just returned
    op,                \* the operation that produced the current state
    new_args,          \* the arguments of Candle::new
    new_result,        \* Option<Candle>: what Candle::new returned for new_args
    area_x,            \* area.x handed to render
    area_y,            \* area.y handed to render
    area_height,       \* area.height handed to render
    buf,               \* the buffer cells render has written: [x, y, what]
    outcome,           \* how the last render ended: "none", "returned", "panic"
    call,              \* the arguments of the axis or glyph function under study
    ret                \* Option: what that function returned for call

vars == <<interval, candles, area_width, info, cursor_timestamp,
          rendered_candles, needed, op, new_args, new_result,
          area_x, area_y, area_height, buf, outcome, call, ret>>

chartVars == <<interval, candles, area_width>>
stateVars == <<info, cursor_timestamp>>
candleVars == <<new_args, new_result>>
drawVars == <<area_x, area_y, area_height, buf, outcome>>
callVars == <<call, ret>>

\* ------------------------------------------------------------------ bounds

\* Candle timestamps are slot * interval * 1000 for slot in 0..MaxSlot.
MaxSlot == 3
\* area.width ranges up to the reserved value-axis width plus MaxChartWidth.
MaxChartWidth == 2
\* Candle::new is applied to prices 0..MaxPrice and timestamps 0..MaxSlot.
MaxPrice == 2

\* --------------------------------------------------------- program constants

OneSecond == 1
OneMinute == 60
Intervals == {OneSecond, OneMinute}

\* Numeric::default() is Numeric::new(9, 3): field width 9.
DefaultPrecision == 9
\* estimated_width adds 4 characters of axis decoration.
AxisDecoration == 4
\* render keeps 3 rows below the body: `area.height - 3`.
ReservedRows == 3

None == <<>>
Some(x) == <<x>>
IsSome(o) == Len(o) = 1
Unwrap(o) == o[1]

max(a, b) == IF a >= b THEN a ELSE b
min(a, b) == IF a <= b THEN a ELSE b

\* i64::clamp(self, lo, hi), called with lo <= hi.
clamp(x, lo, hi) == IF x < lo THEN lo ELSE IF x > hi THEN hi ELSE x

\* `interval as i64 * 1000`: the interval's duration in milliseconds.
IntervalMillis(i) == i * 1000

\* ------------------------------------------------- CandleStickChartState

CandleStikcChartInfo_new(first, last, i, latest, need) ==
    [cursor_first_timestamp |-> first,
     cursor_last_timestamp  |-> last,
     interval               |-> i,
     latest_timestamp       |-> latest,
     need_previous_candles  |-> need]

\* set_info without the clamp: a cursor outside the new bounds is kept.
set_info_cursor_unclamped(cur, i) ==
    IF IsSome(cur)
    THEN IF Unwrap(cur) = i.latest_timestamp THEN None ELSE cur
    ELSE cur

\* set_info: the new cursor.
set_info_cursor(cur, i) ==
    IF IsSome(cur)
    THEN IF Unwrap(cur) = i.latest_timestamp
         THEN None
         ELSE Some(clamp(Unwrap(cur), i.cursor_first_timestamp, i.cursor_last_timestamp))
    ELSE cur

\* try_move_backward stepping by the interval's seconds, not its milliseconds.
try_move_backward_seconds(cur, i) ==
    LET cursor == IF IsSome(cur)
                  THEN Unwrap(cur) - i.interval
                  ELSE i.latest_timestamp - i.interval
    IN  Some(max(cursor, i.cursor_first_timestamp))

\* try_move_backward bounded below by the wrong end of the window.
try_move_backward_last_bound(cur, i) ==
    LET cursor == IF IsSome(cur)
                  THEN Unwrap(cur) - IntervalMillis(i.interval)
                  ELSE i.latest_timestamp - IntervalMillis(i.interval)
    IN  Some(max(cursor, i.cursor_last_timestamp))

\* try_move_backward: the new cursor, given Some(info).
try_move_backward_cursor(cur, i) ==
    LET cursor == IF IsSome(cur)
                  THEN Unwrap(cur) - IntervalMillis(i.interval)
                  ELSE i.latest_timestamp - IntervalMillis(i.interval)
    IN  Some(max(cursor, i.cursor_first_timestamp))

\* try_move_forward that goes Live when it reaches the latest timestamp.
try_move_forward_to_live(cur, i) ==
    LET cursor == IF IsSome(cur)
                  THEN Unwrap(cur) + IntervalMillis(i.interval)
                  ELSE i.latest_timestamp + IntervalMillis(i.interval)
    IN  IF min(cursor, i.cursor_last_timestamp) = i.latest_timestamp
        THEN None
        ELSE Some(min(cursor, i.cursor_last_timestamp))

\* try_move_forward without the upper bound.
try_move_forward_unclamped(cur, i) ==
    LET cursor == IF IsSome(cur)
                  THEN Unwrap(cur) + IntervalMillis(i.interval)
                  ELSE i.latest_timestamp + IntervalMillis(i.interval)
    IN  Some(cursor)

\* try_move_forward: the new cursor, given Some(info).
try_move_forward_cursor(cur, i) ==
    LET cursor == IF IsSome(cur)
                  THEN Unwrap(cur) + IntervalMillis(i.interval)
                  ELSE i.latest_timestamp + IntervalMillis(i.interval)
    IN  Some(min(cursor, i.cursor_last_timestamp))

\* is_needed_previous_candles asking for history before any render.
is_needed_previous_candles_eager(inf) ==
    IF IsSome(inf) THEN Unwrap(inf).need_previous_candles ELSE TRUE

is_needed_previous_candles(inf) ==
    IF IsSome(inf) THEN Unwrap(inf).need_previous_candles ELSE FALSE

\* reset_cursor that forgets to clear the cursor.
reset_cursor_keep(cur) == cur

\* reset_cursor: the new cursor.
reset_cursor(cur) == None

\* ------------------------------------------------------------ YAxis

\* YAxis::estimated_width(Numeric::default(), global_min, global_max):
\* max(format(max).len(), format(min).len()) + 4.  "{:>9.3}" is 9 characters
\* wide for every price below 100000, which the series here stay under.
YAxis_estimated_width == DefaultPrecision + AxisDecoration

\* ------------------------------------------------- CandleStickChart::render

\* usize: chart_width = area.width - y_axis_width, taken when area.width > y_axis_width.
chart_width_of(w) == w - YAxis_estimated_width

\* self.candles.last().unwrap().timestamp
last_timestamp(cs) == cs[Len(cs)]

\* first_timestamp_cursor (candles[candles_len - 1] is the candles_len-th candle).
first_timestamp_cursor(cs, candles_len) ==
    IF Len(cs) > candles_len THEN cs[candles_len] ELSE last_timestamp(cs)

\* The true latest data timestamp handed to CandleStikcChartInfo::new.
latest_timestamp_of(cs) == last_timestamp(cs)

\* The flag handed to CandleStikcChartInfo::new: the window has candles_len
\* columns and the series cannot fill them, so its earliest column lies
\* before the first candle held.
need_previous_candles_of(cs, candles_len) == Len(cs) < candles_len

\* The info render hands to set_info.
render_info(cs, i, candles_len) ==
    CandleStikcChartInfo_new(first_timestamp_cursor(cs, candles_len),
                             last_timestamp(cs),
                             i,
                             latest_timestamp_of(cs),
                             need_previous_candles_of(cs, candles_len))

\* skipped_candles_len that ignores the cursor: the window always ends at the last candle.
skipped_candles_len_live(cs, candles_len, cur) ==
    IF Len(cs) > candles_len THEN Len(cs) - candles_len ELSE 0

\* skipped_candles_len, from the cursor set_info left.
skipped_candles_len(cs, candles_len, cur) ==
    IF IsSome(cur)
    THEN LET count == Cardinality({k \in 1..Len(cs) : cs[k] <= Unwrap(cur)})
         IN  IF count > candles_len THEN count - candles_len ELSE 0
    ELSE IF Len(cs) > candles_len THEN Len(cs) - candles_len ELSE 0

\* candles.iter().skip(skipped).take(candles_len)
skip_take(cs, skipped, candles_len) ==
    SubSeq(cs, skipped + 1, min(Len(cs), skipped + candles_len))

\* render returns early: empty series, or no column left beside the value axis.
render_rejects(cs, w) == cs = <<>> \/ w <= YAxis_estimated_width

\* ------------------------------------------------------------ Candle::new

\* Candle::new refusing a flat candle.
Candle_new_strict(a) ==
    IF a.high > a.low
    THEN Some([timestamp |-> a.timestamp, open |-> a.open, high |-> a.high,
               low |-> a.low, close |-> a.close])
    ELSE None

Candle_new(a) ==
    IF a.high >= a.low
    THEN Some([timestamp |-> a.timestamp, open |-> a.open, high |-> a.high,
               low |-> a.low, close |-> a.close])
    ELSE None

\* ------------------------------------------------------------------ inputs

Slots == 0..MaxSlot
Timestamps(i) == {k * IntervalMillis(i) : k \in Slots}

RECURSIVE Ascending(_)
\* The timestamps of S in ascending order.
Ascending(S) ==
    IF S = {} THEN <<>>
    ELSE LET m == CHOOSE x \in S : \A y \in S : x <= y
         IN  <<m>> \o Ascending(S \ {m})

\* The series a caller can hand over: sorted ascending, no duplicate timestamp.
Series(i) == {Ascending(S) : S \in SUBSET Timestamps(i)}

AreaWidths == (YAxis_estimated_width - 1)..(YAxis_estimated_width + MaxChartWidth)

Prices == 0..MaxPrice
CandleArgs == [timestamp : Slots, open : Prices, high : Prices, low : Prices, close : Prices]
NoArgs == [timestamp |-> 0, open |-> 0, high |-> 0, low |-> 0, close |-> 0]
\* No axis or glyph function is under study.
NoCall == [fn |-> "none"]

\* ------------------------------------------------------------------- Init

\* CandleStickChart::new(interval), CandleStickChartState::default().
Init ==
    /\ interval \in Intervals
    /\ candles = <<>>
    /\ area_width \in AreaWidths
    /\ info = None
    /\ cursor_timestamp = None
    /\ rendered_candles = <<>>
    /\ needed = None
    /\ op = "new"
    /\ new_args = NoArgs
    /\ new_result = None
    /\ area_x = 0
    /\ area_y = 0
    /\ area_height = ReservedRows + 1
    /\ buf = {}
    /\ outcome = "none"
    /\ call = NoCall
    /\ ret = None

\* ---------------------------------------------------------------- actions

\* CandleStickChart::candles(series): the caller hands over its current series.
Candles ==
    /\ \E cs \in Series(interval) : candles' = cs
    /\ needed' = None
    /\ op' = "candles"
    /\ UNCHANGED <<interval, area_width, info, cursor_timestamp, rendered_candles,
                   new_args, new_result>>
    /\ UNCHANGED <<drawVars, callVars>>

\* The terminal is resized: the next render gets another area.
Resize ==
    /\ \E w \in AreaWidths : area_width' = w
    /\ needed' = None
    /\ op' = "resize"
    /\ UNCHANGED <<interval, candles, info, cursor_timestamp, rendered_candles,
                   new_args, new_result>>
    /\ UNCHANGED <<drawVars, callVars>>

\* render, returning early.
RenderRejected ==
    /\ render_rejects(candles, area_width)
    /\ needed' = None
    /\ op' = "render_rejected"
    /\ UNCHANGED <<interval, candles, area_width, info, cursor_timestamp,
                   rendered_candles,
                   new_args, new_result>>
    /\ UNCHANGED <<drawVars, callVars>>

\* render, up to the visible slice.
Render ==
    /\ ~render_rejects(candles, area_width)
    /\ LET candles_len == chart_width_of(area_width)
           i   == render_info(candles, interval, candles_len)
           cur == set_info_cursor(cursor_timestamp, i)
       IN  /\ info' = Some(i)
           /\ cursor_timestamp' = cur
           /\ rendered_candles' =
                  skip_take(candles, skipped_candles_len(candles, candles_len, cur),
                            candles_len)
    /\ needed' = None
    /\ op' = "render"
    /\ UNCHANGED <<interval, candles, area_width, new_args, new_result>>
    /\ UNCHANGED <<drawVars, callVars>>

TryMoveBackward ==
    /\ cursor_timestamp' = IF IsSome(info)
                           THEN try_move_backward_cursor(cursor_timestamp, Unwrap(info))
                           ELSE cursor_timestamp
    /\ needed' = None
    /\ op' = "try_move_backward"
    /\ UNCHANGED <<interval, candles, area_width, info, rendered_candles,
                   new_args, new_result>>
    /\ UNCHANGED <<drawVars, callVars>>

TryMoveForward ==
    /\ cursor_timestamp' = IF IsSome(info)
                           THEN try_move_forward_cursor(cursor_timestamp, Unwrap(info))
                           ELSE cursor_timestamp
    /\ needed' = None
    /\ op' = "try_move_forward"
    /\ UNCHANGED <<interval, candles, area_width, info, rendered_candles,
                   new_args, new_result>>
    /\ UNCHANGED <<drawVars, callVars>>

IsNeededPreviousCandles ==
    /\ needed' = Some(is_needed_previous_candles(info))
    /\ op' = "is_needed_previous_candles"
    /\ UNCHANGED <<interval, candles, area_width, info, cursor_timestamp,
                   rendered_candles,
                   new_args, new_result>>
    /\ UNCHANGED <<drawVars, callVars>>

ResetCursor ==
    /\ cursor_timestamp' = reset_cursor(cursor_timestamp)
    /\ needed' = None
    /\ op' = "reset_cursor"
    /\ UNCHANGED <<interval, candles, area_width, info, rendered_candles,
                   new_args, new_result>>
    /\ UNCHANGED <<drawVars, callVars>>

Next ==
    \/ Candles
    \/ Resize
    \/ RenderRejected
    \/ Render
    \/ TryMoveBackward
    \/ TryMoveForward
    \/ IsNeededPreviousCandles
    \/ ResetCursor

Spec == Init /\ [][Next]_vars

\* --------------------------------------------- Candle::new on its own

\* The arguments are drawn; the chart and the viewport state stay as constructed.
InitCandle ==
    /\ interval = OneMinute
    /\ candles = <<>>
    /\ area_width = YAxis_estimated_width
    /\ info = None
    /\ cursor_timestamp = None
    /\ rendered_candles = <<>>
    /\ needed = None
    /\ op = "new"
    /\ new_args \in CandleArgs
    /\ new_result = None
    /\ area_x = 0
    /\ area_y = 0
    /\ area_height = ReservedRows + 1
    /\ buf = {}
    /\ outcome = "none"
    /\ call = NoCall
    /\ ret = None

CandleNew ==
    /\ new_result' = Candle_new(new_args)
    /\ op' = "Candle_new"
    /\ UNCHANGED <<interval, candles, area_width, info, cursor_timestamp,
                   rendered_candles, needed, new_args>>
    /\ UNCHANGED <<drawVars, callVars>>

NextCandle == CandleNew

SpecCandle == InitCandle /\ [][NextCandle]_vars

\* ------------------------- try_move_backward repeated after one render

\* A fresh state rendered once: Live, info written from the series and the area.
InitBackward ==
    /\ interval \in Intervals
    /\ candles \in Series(interval)
    /\ area_width \in AreaWidths
    /\ ~render_rejects(candles, area_width)
    /\ info = Some(render_info(candles, interval, chart_width_of(area_width)))
    /\ cursor_timestamp = set_info_cursor(None, Unwrap(info))
    /\ rendered_candles =
           skip_take(candles,
                     skipped_candles_len(candles, chart_width_of(area_width),
                                         cursor_timestamp),
                     chart_width_of(area_width))
    /\ needed = None
    /\ op = "render"
    /\ new_args = NoArgs
    /\ new_result = None
    /\ area_x = 0
    /\ area_y = 0
    /\ area_height = ReservedRows + 1
    /\ buf = {}
    /\ outcome = "none"
    /\ call = NoCall
    /\ ret = None

NextBackward == TryMoveBackward

\* The caller keeps calling try_move_backward.
SpecBackward == InitBackward /\ [][NextBackward]_vars /\ WF_vars(TryMoveBackward)

\* ------------------------------------- CandleStickChart::render, drawing

\* u16 subtraction as the release build computes it (wrapping).
u16_wrapping_sub(a, b) == (a - b) % 65536

\* A buffer cell render wrote: what lies at (x, y); ts is the candle's
\* timestamp for a glyph cell and -1 for an axis cell.
Cell(x, y, w, ts) == [x |-> x, y |-> y, w |-> w, ts |-> ts]

\* Writing cells into a buffer: the last write to a position is what stays.
Overwrite(b, cells) ==
    {c \in b : ~ \E d \in cells : d.x = c.x /\ d.y = c.y} \cup cells

\* `buf.set_string(0, y, string)` for each of the first `rows` rows of the
\* value axis; every string is YAxis_estimated_width characters long.
YAxisCells(rows) ==
    {Cell(x, y, "y_axis", -1) : x \in 0..(YAxis_estimated_width - 1), y \in 0..(rows - 1)}

\* `buf.set_string(y_axis_width - 2, area.height - 3, "└──")`.
CornerCells(h) ==
    {Cell(YAxis_estimated_width - 2 + k, h, "corner", -1) : k \in 0..2}

\* The two rows of the time axis, chart_width characters each, written at
\* (y_axis_width, area.height - 3 + y).
XAxisCells(chart_width, h) ==
    {Cell(YAxis_estimated_width + k, h + r, "x_axis", -1) :
        k \in 0..(chart_width - 1), r \in 0..1}

\* The glyph column of the candle at index x (from 0) of the visible slice:
\* `buf.get_mut(x + y_axis_width, y)` for each of the h rows.
CandleCells(rendered, h) ==
    {Cell(YAxis_estimated_width + (k - 1), y, "candle", rendered[k]) :
        k \in 1..Len(rendered), y \in 0..(h - 1)}

\* Everything an accepted render writes, in the order it writes it.
DrawnCells(rendered, chart_width, h) ==
    Overwrite(Overwrite(Overwrite(YAxisCells(h), CornerCells(h)),
                        XAxisCells(chart_width, h)),
              CandleCells(rendered, h))

\* The rows of the buffer render is handed: the buffer holds the area.
buffer_height(ay, ah) == ay + ah

\* `area.height - 3` is a u16 subtraction: the debug build aborts on
\* overflow, the release build wraps.
Builds == {"debug", "release"}

\* ------------------------------------------------------ drawing, inputs

MaxDrawWidth == 3
MaxAreaHeight == 5
MaxOrigin == 1

DrawWidths == YAxis_estimated_width..(YAxis_estimated_width + MaxDrawWidth)
AreaHeights == 0..MaxAreaHeight
Origins == 0..MaxOrigin

InitDraw ==
    /\ interval \in Intervals
    /\ candles \in Series(interval)
    /\ area_width \in DrawWidths
    /\ area_height \in AreaHeights
    /\ area_x \in Origins
    /\ area_y \in Origins
    /\ info = None
    /\ cursor_timestamp = None
    /\ rendered_candles = <<>>
    /\ needed = None
    /\ op = "init"
    /\ new_args = NoArgs
    /\ new_result = None
    /\ buf = {}
    /\ outcome = "none"
    /\ call = NoCall
    /\ ret = None

\* render, the whole of it: the early returns, set_info, the visible slice,
\* the value axis, the corner, the time axis and the glyph columns.
Draw ==
    /\ outcome # "panic"
    /\ \E build \in Builds :
        IF render_rejects(candles, area_width)
        THEN /\ outcome' = "returned"
             /\ UNCHANGED <<info, cursor_timestamp, rendered_candles, buf>>
        ELSE LET candles_len == chart_width_of(area_width)
                 i   == render_info(candles, interval, candles_len)
                 cur == set_info_cursor(cursor_timestamp, i)
                 rendered == skip_take(candles,
                                       skipped_candles_len(candles, candles_len, cur),
                                       candles_len)
                 h   == u16_wrapping_sub(area_height, ReservedRows)
             IN  /\ info' = Some(i)
                 /\ cursor_timestamp' = cur
                 /\ rendered_candles' = rendered
                 /\ IF area_height >= ReservedRows
                    THEN /\ buf' = Overwrite(buf, DrawnCells(rendered, candles_len, h))
                         /\ outcome' = "returned"
                    ELSE /\ buf' = IF build = "debug"
                                   THEN buf
                                   ELSE Overwrite(buf,
                                            YAxisCells(min(h, buffer_height(area_y,
                                                                            area_height))))
                         /\ outcome' = "panic"
    /\ needed' = None
    /\ op' = "draw"
    /\ UNCHANGED <<interval, candles, area_width, area_x, area_y, area_height,
                   new_args, new_result, callVars>>

\* The caller scrolls between two renders.
DrawScroll ==
    /\ outcome = "returned"
    /\ (TryMoveBackward \/ TryMoveForward \/ ResetCursor)

NextDraw == Draw \/ DrawScroll

SpecDraw == InitDraw /\ [][NextDraw]_vars

\* --------------------------------------------------- f64 row coordinates
\*
\* A row coordinate is an f64.  It is kept exactly: a finite one is the
\* rational n/d (d > 0), and the three other values f64 division yields
\* are kept apart: NaN (0/0), +infinity and -infinity (x/0).

Fin(n, d) == [k |-> "fin", n |-> n, d |-> d]
NaN == [k |-> "nan", n |-> 0, d |-> 1]
PInf == [k |-> "pinf", n |-> 0, d |-> 1]
NInf == [k |-> "ninf", n |-> 0, d |-> 1]

\* f64 comparisons of a coordinate with the rational p/q (q > 0); every
\* comparison with NaN is false.
f64_lt(c, p, q) ==
    CASE c.k = "fin" -> c.n * q < p * c.d
      [] c.k = "ninf" -> TRUE
      [] OTHER -> FALSE
f64_le(c, p, q) ==
    CASE c.k = "fin" -> c.n * q <= p * c.d
      [] c.k = "ninf" -> TRUE
      [] OTHER -> FALSE
f64_gt(c, p, q) ==
    CASE c.k = "fin" -> c.n * q > p * c.d
      [] c.k = "pinf" -> TRUE
      [] OTHER -> FALSE
f64_ge(c, p, q) ==
    CASE c.k = "fin" -> c.n * q >= p * c.d
      [] c.k = "pinf" -> TRUE
      [] OTHER -> FALSE

\* a - b for two coordinates of one axis (equal denominators when finite).
f64_sub(a, b) ==
    CASE a.k = "nan" \/ b.k = "nan" -> NaN
      [] a.k = "fin" /\ b.k = "fin" -> Fin(a.n - b.n, a.d)
      [] a.k = b.k -> NaN
      [] a.k = "pinf" \/ b.k = "ninf" -> PInf
      [] OTHER -> NInf

\* c - y for an integer row y.
f64_sub_row_reversed(c, y) == IF c.k = "fin" THEN Fin(y * c.d - c.n, c.d) ELSE c
f64_sub_row(c, y) == IF c.k = "fin" THEN Fin(c.n - y * c.d, c.d) ELSE c

\* c.floor() and c.ceil(); infinities and NaN are returned as they are.
f64_floor_below(c) == IF c.k = "fin" THEN Fin((c.n \div c.d) - 1, 1) ELSE c
f64_floor(c) == IF c.k = "fin" THEN Fin(c.n \div c.d, 1) ELSE c
f64_ceil_above(c) == IF c.k = "fin" THEN Fin(1 - ((-c.n) \div c.d), 1) ELSE c
f64_ceil(c) == IF c.k = "fin" THEN Fin(-((-c.n) \div c.d), 1) ELSE c

\* OrderedFloat's total order: -inf < finite < +inf < NaN, NaN = NaN.
ordered_le(a, b) ==
    CASE b.k = "nan" -> TRUE
      [] a.k = "nan" -> FALSE
      [] a.k = "ninf" \/ b.k = "pinf" -> TRUE
      [] a.k = "pinf" \/ b.k = "ninf" -> FALSE
      [] OTHER -> a.n * b.d <= b.n * a.d
ordered_min(a, b) == IF ordered_le(a, b) THEN a ELSE b
ordered_max(a, b) == IF ordered_le(a, b) THEN b ELSE a

\* ------------------------------------------------------- YAxis::calc_y

YAxis_new(height, lo, hi) == [height |-> height, min |-> lo, max |-> hi]

\* (value - self.min) / self.unit with unit = (max - min) / height: a
\* division by 0 when max = min, by +infinity when height = 0 < max - min.
calc_y_flipped(ax, value) ==
    IF ax.max = ax.min \/ ax.height = 0
    THEN NaN
    ELSE Fin((ax.max - value) * ax.height, ax.max - ax.min)

calc_y(ax, value) ==
    CASE ax.max = ax.min /\ value = ax.min -> NaN
      [] ax.max = ax.min /\ value > ax.min -> PInf
      [] ax.max = ax.min /\ value < ax.min -> NInf
      [] ax.height = 0 -> Fin(0, 1)
      [] OTHER -> Fin((value - ax.min) * ax.height, ax.max - ax.min)

\* ------------------------------------------------------- Candle::render

\* The glyph of row y, and is_body after it.
glyph_of_row(y, is_body, high, top, bottom, low) ==
    LET high_max_diff == f64_sub(high, top)
        min_low_diff  == f64_sub(bottom, low)
        above == f64_sub_row(high, y)
        below == f64_sub_row(low, y)
        G(g, b) == [glyph |-> g, is_body |-> b]
    IN  IF f64_ge(f64_ceil(high), y, 1) /\ f64_le(f64_floor(top), y, 1)
        THEN IF f64_gt(above, 1, 2)
             THEN IF f64_lt(high_max_diff, 1, 4) THEN G("BODY", TRUE)
                  ELSE IF f64_lt(high_max_diff, 3, 4)
                       THEN (IF is_body THEN G("BODY", TRUE) ELSE G("UP", TRUE))
                       ELSE G("WICK", is_body)
             ELSE IF f64_ge(above, 0, 1)
                  THEN IF f64_lt(high_max_diff, 1, 4)
                       THEN G("HALF_BODY_BOTTOM", is_body)
                       ELSE G("HALF_WICK_BOTTOM", is_body)
                  ELSE G("VOID", is_body)
        ELSE IF f64_ge(f64_floor(top), y, 1) /\ f64_le(f64_ceil(bottom), y, 1)
        THEN G("BODY", TRUE)
        ELSE IF f64_ge(f64_ceil(bottom), y, 1) /\ f64_le(f64_floor(low), y, 1)
        THEN IF f64_lt(below, 1, 2)
             THEN IF f64_lt(min_low_diff, 1, 4) THEN G("BODY", TRUE)
                  ELSE IF f64_lt(min_low_diff, 3, 4)
                       THEN (IF is_body THEN G("DOWN", FALSE) ELSE G("WICK", is_body))
                       ELSE G("WICK", is_body)
             ELSE IF f64_le(below, 1, 1)
                  THEN IF f64_lt(min_low_diff, 1, 4)
                       THEN G("HALF_BODY_TOP", is_body)
                       ELSE G("HALF_WICK_TOP", is_body)
                  ELSE G("VOID", is_body)
        ELSE G("VOID", is_body)

RECURSIVE glyph_rows(_, _, _, _, _, _)
\* `for y in (0..height).rev()`: the glyphs of rows y, y - 1, ..., 0.
glyph_rows(y, is_body, high, top, bottom, low) ==
    IF y < 0 THEN <<>>
    ELSE LET g == glyph_of_row(y, is_body, high, top, bottom, low)
         IN  <<g.glyph>> \o glyph_rows(y - 1, g.is_body, high, top, bottom, low)

\* The two debug_assert!s, evaluated in every row of the loop.
render_asserts_hold(ax, c) ==
    LET open  == calc_y(ax, c.open)
        close == calc_y(ax, c.close)
        high  == calc_y(ax, c.high)
        low   == calc_y(ax, c.low)
    IN  \/ ax.height = 0
        \/ /\ f64_ge(f64_sub(high, ordered_max(open, close)), 0, 1)
           /\ f64_ge(f64_sub(ordered_min(open, close), low), 0, 1)

Candle_render_bottom_first(ax, c) ==
    [k \in 1..ax.height |->
        glyph_rows(ax.height - 1, FALSE, calc_y(ax, c.high),
                   ordered_max(calc_y(ax, c.open), calc_y(ax, c.close)),
                   ordered_min(calc_y(ax, c.open), calc_y(ax, c.close)),
                   calc_y(ax, c.low))[ax.height + 1 - k]]

\* The column Candle::render returns, top row first.
Candle_render(ax, c) ==
    glyph_rows(ax.height - 1, FALSE, calc_y(ax, c.high),
               ordered_max(calc_y(ax, c.open), calc_y(ax, c.close)),
               ordered_min(calc_y(ax, c.open), calc_y(ax, c.close)),
               calc_y(ax, c.low))

\* Bullish iff open <= close (OrderedFloat order).
candle_type(ax, c) ==
    IF ordered_le(calc_y(ax, c.open), calc_y(ax, c.close)) THEN "Bullish" ELSE "Bearish"

RECURSIVE count_ends(_, _)
\* test_continuous_graph's `graphs`: the number of positions of chars
\* (from index k on) holding a non-void glyph directly followed by a void.
count_ends(chars, k) ==
    IF k >= Len(chars) THEN 0
    ELSE (IF chars[k] # "VOID" /\ chars[k + 1] = "VOID" THEN 1 ELSE 0)
         + count_ends(chars, k + 1)

\* The vertical pairs (upper, lower) test_continuous_graph rejects.
bad_pair(a, b) ==
    \/ a = "BODY" /\ b \in {"UP", "HALF_BODY_BOTTOM", "HALF_WICK_BOTTOM"}
    \/ a \in {"DOWN", "HALF_BODY_TOP", "HALF_WICK_TOP"} /\ b = "BODY"
    \/ a = "WICK" /\ b \in {"HALF_BODY_BOTTOM", "HALF_WICK_BOTTOM"}
    \/ a \in {"HALF_BODY_TOP", "HALF_WICK_TOP"} /\ b = "WICK"

test_continuous_graph(col) ==
    LET chars == col \o <<"VOID">>
    IN  IF \A k \in 1..Len(col) : col[k] = "VOID" THEN FALSE
        ELSE IF Len(col) <= 1 THEN TRUE
        ELSE IF count_ends(chars, 1) > 1 THEN FALSE
        ELSE ~ \E k \in 1..(Len(chars) - 1) : bad_pair(chars[k], chars[k + 1])

\* ---------------------------------------------- Candle::render on its own

MaxValue == 6
MaxRows == 4

Values == 0..MaxValue
RowCounts == 1..MaxRows

\* The candle of tests::simple_candle, Candle::new(0, 0.9, 3.0, 0.0, 2.1) in
\* tenths, on the 8 - 3 rows of its axis.
TestCandleCall ==
    [fn |-> "Candle_render", height |-> 5, min |-> 0, max |-> 30,
     open |-> 9, high |-> 30, low |-> 0, close |-> 21]

\* The axis render builds spans the lows and highs of the visible candles,
\* so a candle's low and high lie inside it; Candle::new lets open and
\* close lie anywhere.
GlyphCalls ==
    {[fn |-> "Candle_render", height |-> h, min |-> a[1], max |-> a[4],
      open |-> o, high |-> a[3], low |-> a[2], close |-> cl] :
        h \in RowCounts,
        a \in {q \in Values \X Values \X Values \X Values :
                   q[1] <= q[2] /\ q[2] <= q[3] /\ q[3] <= q[4]},
        o \in Values, cl \in Values} \cup {TestCandleCall}

InitGlyph ==
    /\ call \in GlyphCalls
    /\ ret = None
    /\ interval = OneSecond
    /\ candles = <<>>
    /\ area_width = YAxis_estimated_width
    /\ info = None
    /\ cursor_timestamp = None
    /\ rendered_candles = <<>>
    /\ needed = None
    /\ op = "init"
    /\ new_args = NoArgs
    /\ new_result = None
    /\ area_x = 0
    /\ area_y = 0
    /\ area_height = ReservedRows + 1
    /\ buf = {}
    /\ outcome = "none"

call_axis == YAxis_new(call.height, call.min, call.max)
call_candle == [open |-> call.open, high |-> call.high, low |-> call.low,
                close |-> call.close]

\* Candle::render; the debug build aborts when a debug_assert! fails.
CandleRender ==
    /\ call.fn = "Candle_render"
    /\ ret = None
    /\ \E build \in Builds :
           ret' = IF build = "debug" /\ ~render_asserts_hold(call_axis, call_candle)
                  THEN Some([panic |-> TRUE, type |-> "none", column |-> <<>>])
                  ELSE Some([panic |-> FALSE,
                             type |-> candle_type(call_axis, call_candle),
                             column |-> Candle_render(call_axis, call_candle)])
    /\ op' = "Candle_render"
    /\ UNCHANGED <<call, stateVars, chartVars, candleVars, drawVars, needed,
                   rendered_candles>>

NextGlyph == CandleRender

SpecGlyph == InitGlyph /\ [][NextGlyph]_vars

\* ------------------------------------------------ YAxis::calc_y on its own

\* The axis and value of tests::test_calc.
TestCalcCall == [fn |-> "calc_y", height |-> 40, min |-> 100, max |-> 200, value |-> 130]

CalcCalls ==
    {[fn |-> "calc_y", height |-> h, min |-> a, max |-> b, value |-> v] :
        h \in RowCounts,
        a \in Values, b \in Values, v \in Values} \cup {TestCalcCall}

\* YAxis::new asserts min <= max; calc_y is asked about values of the range.
InitYAxis ==
    /\ call \in {c \in CalcCalls : c.min <= c.value /\ c.value <= c.max}
    /\ ret = None
    /\ interval = OneSecond
    /\ candles = <<>>
    /\ area_width = YAxis_estimated_width
    /\ info = None
    /\ cursor_timestamp = None
    /\ rendered_candles = <<>>
    /\ needed = None
    /\ op = "init"
    /\ new_args = NoArgs
    /\ new_result = None
    /\ area_x = 0
    /\ area_y = 0
    /\ area_height = ReservedRows + 1
    /\ buf = {}
    /\ outcome = "none"

\* YAxis::new(.., height, min, max).calc_y(value)
CalcY ==
    /\ call.fn = "calc_y"
    /\ ret = None
    /\ ret' = Some(calc_y(YAxis_new(call.height, call.min, call.max), call.value))
    /\ op' = "calc_y"
    /\ UNCHANGED <<call, stateVars, chartVars, candleVars, drawVars, needed,
                   rendered_candles>>

NextYAxis == CalcY

SpecYAxis == InitYAxis /\ [][NextYAxis]_vars

\* ------------------------------------------------------- Numeric::format

Numeric_new(precision, scale) == [precision |-> precision, scale |-> scale]

RECURSIVE pow10(_)
pow10(s) == IF s = 0 THEN 1 ELSE 10 * pow10(s - 1)

\* Strings are sequences of characters.
Digits == <<"0", "1", "2", "3", "4", "5", "6", "7", "8", "9">>

RECURSIVE int_digits(_)
\* The decimal digits of n >= 0, most significant first ("0" for 0).
int_digits(n) ==
    IF n < 10 THEN <<Digits[n + 1]>>
    ELSE int_digits(n \div 10) \o <<Digits[(n % 10) + 1]>>

RECURSIVE frac_digits(_, _)
\* The last s decimal digits of n, with leading zeros.
frac_digits(n, s) ==
    IF s = 0 THEN <<>>
    ELSE frac_digits(n \div 10, s - 1) \o <<Digits[(n % 10) + 1]>>

RECURSIVE spaces(_)
spaces(k) == IF k <= 0 THEN <<>> ELSE <<" ">> \o spaces(k - 1)

\* |n / d| in units of 10^-s, rounded to the nearest; a value exactly half
\* way goes up iff tie_up (the f64 the code holds lies on either side of
\* the rational, or on it, and then the digits are rounded half to even).
round_scaled(n, d, s, tie_up) ==
    LET a == IF n < 0 THEN -n ELSE n
        r == (a * pow10(s)) % d
    IN  ((a * pow10(s)) \div d) + (IF 2 * r > d \/ (2 * r = d /\ tie_up) THEN 1 ELSE 0)

\* The digits of "{:.scale$}": sign, integer part, and the fraction after a
\* point when scale > 0.  A negative value keeps its sign when it rounds to 0.
fixed_point(negative, m, s) ==
    (IF negative THEN <<"-">> ELSE <<>>)
        \o int_digits(m \div pow10(s))
        \o (IF s = 0 THEN <<>> ELSE <<".">> \o frac_digits(m % pow10(s), s))

\* "{:>precision$}": spaces on the left up to the field width, never a cut.
right_aligned(text, width) == spaces(width - Len(text)) \o text

\* Numeric::format of the finite value v.
Numeric_format(numeric, v, tie_up) ==
    right_aligned(fixed_point(v.n < 0, round_scaled(v.n, v.d, numeric.scale, tie_up),
                              numeric.scale),
                  numeric.precision)

\* --------------------------------------------------------- YAxis::render

\* self.max - self.unit * i, for a row i of the axis (height >= 1).
row_value(ax, i) == Fin(ax.max * ax.height - i * (ax.max - ax.min), ax.height)

\* max(format(max).len(), format(min).len()); min and max are integers here.
max_chars(numeric, ax) ==
    max(Len(Numeric_format(numeric, Fin(ax.max, 1), FALSE)),
        Len(Numeric_format(numeric, Fin(ax.min, 1), FALSE)))

\* Row i of Grid::Accurate; "BRANCH" and "BAR" stand for the two
\* box-drawing characters of the axis line.
accurate_row(numeric, ax, i, ties) ==
    IF i % 4 = 0
    THEN <<" ">> \o Numeric_format(numeric, row_value(ax, i), ties[i]) \o <<" ", "BRANCH", " ">>
    ELSE <<" ">> \o spaces(max_chars(numeric, ax)) \o <<" ", "BAR", " ">>

\* YAxis::render under Grid::Accurate: one string per row, top row first.
YAxis_render(numeric, ax, ties) ==
    [k \in 1..ax.height |-> accurate_row(numeric, ax, k - 1, ties)]

\* ------------------------------------------------ YAxis::render on its own

MaxAxisRows == 8

AxisRows == 0..MaxAxisRows
\* Numeric::default(), and two narrow fields a caller can ask for.
Numerics == {Numeric_new(DefaultPrecision, 3), Numeric_new(3, 1), Numeric_new(1, 0)}
AxisBounds == {-1, 0, 3, 100, 100000}

\* The axis of tests::simple_candle: 8 - 3 rows over [0, 3].
TestAxisCall ==
    [fn |-> "YAxis_render", numeric |-> Numeric_new(DefaultPrecision, 3),
     grid |-> "Accurate", height |-> 5, min |-> 0, max |-> 3]

YAxisCalls ==
    {[fn |-> "YAxis_render", numeric |-> nu, grid |-> "Accurate",
      height |-> h, min |-> a, max |-> b] :
        nu \in Numerics, h \in AxisRows, a \in AxisBounds, b \in AxisBounds}

\* YAxis::new asserts min <= max.
InitYRender ==
    /\ call \in {c \in YAxisCalls : c.min <= c.max}
    /\ ret = None
    /\ interval = OneSecond
    /\ candles = <<>>
    /\ area_width = YAxis_estimated_width
    /\ info = None
    /\ cursor_timestamp = None
    /\ rendered_candles = <<>>
    /\ needed = None
    /\ op = "init"
    /\ new_args = NoArgs
    /\ new_result = None
    /\ area_x = 0
    /\ area_y = 0
    /\ area_height = ReservedRows + 1
    /\ buf = {}
    /\ outcome = "none"

\* YAxis::new(Some(numeric), Grid::Accurate, height, min, max).render()
YAxisRender ==
    /\ call.fn = "YAxis_render"
    /\ ret = None
    /\ \E ties \in [{i \in AxisRows : i % 4 = 0} -> BOOLEAN] :
           ret' = Some(YAxis_render(call.numeric,
                                    YAxis_new(call.height, call.min, call.max), ties))
    /\ op' = "YAxis_render"
    /\ UNCHANGED <<call, stateVars, chartVars, candleVars, drawVars, needed,
                   rendered_candles>>

NextYRender == YAxisRender

SpecYRender == InitYRender /\ [][NextYRender]_vars

\* ------------------------------------------------------------ Interval

FifteenMinutes == 900
OneDay == 86400

\* Interval::render_gap: the number of columns between two interior labels.
render_gap(i) ==
    CASE i = 1 -> 30      [] i = 60 -> 15     [] i = 180 -> 20    [] i = 300 -> 12
      [] i = 900 -> 8     [] i = 1800 -> 8    [] i = 3600 -> 12   [] i = 7200 -> 12
      [] i = 14400 -> 18  [] i = 21600 -> 12  [] i = 28800 -> 9   [] i = 43200 -> 14
      [] i = 86400 -> 30  [] i = 259200 -> 30 [] i = 604800 -> 12

\* Interval::render_precision
render_precision(i) ==
    CASE i = 1 -> "Second"
      [] i \in {86400, 259200, 604800} -> "Day"
      [] OTHER -> "Minute"

\* ------------------------------------------------- chrono date and time

\* The Gregorian date of the day `days` after 1970-01-01, for the months
\* the inputs reach: December 1969, January 1970 and February 1970.
civil_date(days) ==
    CASE days < 0 -> [year |-> 1969, month |-> 12, day |-> 32 + days]
      [] days < 31 -> [year |-> 1970, month |-> 1, day |-> days + 1]
      [] OTHER -> [year |-> 1970, month |-> 2, day |-> days - 30]

\* The calendar fields of a date and a second of the day.
date_time(date, sod) ==
    [year |-> date.year, month |-> date.month, day |-> date.day,
     hour |-> sod \div 3600, minute |-> (sod % 3600) \div 60, second |-> sod % 60]

\* The calendar fields of the instant `secs` seconds after the epoch.
from_timestamp(secs) == date_time(civil_date(secs \div 86400), secs % 86400)

\* The calendar fields of the instant t (milliseconds since the epoch) on a
\* clock `offset` seconds east of UTC: from_timestamp_millis, with_timezone.
DateTime(t, offset) == from_timestamp((t + offset * 1000) \div 1000)

two_digits(n) == <<Digits[((n \div 10) % 10) + 1], Digits[(n % 10) + 1]>>

\* format("%Y"), format("%m/%d"), format("%H:%M"), format("%H:%M:%S")
format_Y(dt) == two_digits(dt.year \div 100) \o two_digits(dt.year)
format_md(dt) == two_digits(dt.month) \o <<"/">> \o two_digits(dt.day)
format_HM(dt) == two_digits(dt.hour) \o <<":">> \o two_digits(dt.minute)
format_HMS(dt) == format_HM(dt) \o <<":">> \o two_digits(dt.second)

\* shorted_now_string once prev and now are on the display clock.
shorted_now_fields(prev, now, precision) ==
    IF format_Y(prev) # format_Y(now)
    THEN CASE precision = "Second" ->
                  format_Y(now) \o <<"/">> \o format_md(now) \o <<" ">> \o format_HMS(now)
           [] precision = "Minute" ->
                  format_Y(now) \o <<"/">> \o format_md(now) \o <<" ">> \o format_HM(now)
           [] OTHER -> format_Y(now) \o <<"/">> \o format_md(now)
    ELSE IF format_md(prev) # format_md(now)
    THEN CASE precision = "Second" -> format_md(now) \o <<" ">> \o format_HMS(now)
           [] precision = "Minute" -> format_md(now) \o <<" ">> \o format_HM(now)
           [] OTHER -> format_md(now)
    ELSE IF format_HMS(prev) # format_HMS(now)
    THEN CASE precision = "Second" -> format_HMS(now)
           [] precision = "Minute" -> format_HM(now)
           [] OTHER -> format_md(now)
    ELSE <<>>

\* The label of the last timestamp: what changed since prev, as seen on the
\* display clock.
shorted_now_string(prev_t, now_t, precision, time_offset) ==
    shorted_now_fields(DateTime(prev_t, time_offset), DateTime(now_t, time_offset),
                       precision)

\* diff_datetime_string on the fields of prev and now.
diff_datetime_fields(prev, now) ==
    IF format_Y(prev) # format_Y(now) THEN format_Y(now)
    ELSE IF format_md(prev) # format_md(now) THEN format_md(now)
    ELSE IF format_HM(prev) # format_HM(now) THEN format_HM(now)
    ELSE IF format_HMS(prev) # format_HMS(now) THEN format_HMS(now)
    ELSE <<>>

\* The label of an interior timestamp: the coarsest field that changed
\* since prev, both read on the clock tz of the datetimes handed over.
diff_datetime_string(prev_t, now_t, tz) ==
    diff_datetime_fields(DateTime(prev_t, tz), DateTime(now_t, tz))

\* ------------------------------------------------------ overwrite_chars

\* Where overwrite_chars puts a value of length len asked for at idx in a
\* row of n characters (0-based).
overwrite_start(n, idx, len) ==
    IF idx < 0 THEN 0
    ELSE IF n < idx + len THEN n - len
    ELSE idx

\* overwrite_chars: the row afterwards and whether the value was written.
overwrite_chars_always(chars, idx, value, overlap) ==
    LET n == Len(chars)
        len == Len(value)
        at == overwrite_start(n, idx, len)
    IN  IF n < len THEN [written |-> FALSE, chars |-> chars, at |-> 0]
        ELSE [written |-> TRUE,
              chars |-> [k \in 1..n |-> IF k > at /\ k <= at + len
                                        THEN value[k - at] ELSE chars[k]],
              at |-> at]

overwrite_chars(chars, idx, value, overlap) ==
    LET n == Len(chars)
        len == Len(value)
        at == overwrite_start(n, idx, len)
    IN  IF n < len THEN [written |-> FALSE, chars |-> chars, at |-> 0]
        ELSE IF ~overlap /\ \E k \in (at + 1)..(at + len) : chars[k] # " "
        THEN [written |-> FALSE, chars |-> chars, at |-> at]
        ELSE [written |-> TRUE,
              chars |-> [k \in 1..n |-> IF k > at /\ k <= at + len
                                        THEN value[k - at] ELSE chars[k]],
              at |-> at]

\* ---------------------------------------------------------- XAxis::render

\* (min..=max).step_by(interval * 1000)
full_timestamps(lo, hi, i) ==
    [k \in 1..((hi - lo) \div IntervalMillis(i) + 1) |-> lo + (k - 1) * IntervalMillis(i)]

\* The most recent `width` of them, or all when they fit.
kept_timestamps_oldest(full, width) ==
    IF Len(full) > width THEN SubSeq(full, 1, width) ELSE full

kept_timestamps(full, width) ==
    IF Len(full) > width
    THEN SubSeq(full, Len(full) - width + 1, Len(full))
    ELSE full

\* A label that was written: the column (0-based) whose timestamp it is
\* for, the cells start..start + Len(text) - 1 it fills, and its text.
Label(kind, col, start, text) ==
    [kind |-> kind, col |-> col, start |-> start, text |-> text]

\* The rule row with the tick at column col (0-based); "LINE" stands for
\* the horizontal-line character of the rule, "TICK" for the tick character.
with_tick_before(rule, col) == [k \in 1..Len(rule) |-> IF k = col THEN "TICK" ELSE rule[k]]
with_tick(rule, col) == [k \in 1..Len(rule) |-> IF k = col + 1 THEN "TICK" ELSE rule[k]]

\* The edge label `value` written for column col (0-based), overlap
\* allowed, and the tick over it when it was written.
place_edge_label(r, col, value) ==
    LET w == overwrite_chars(r.labels, col - Len(value) \div 2, value, TRUE)
    IN  IF w.written
        THEN [rule |-> with_tick(r.rule, col), labels |-> w.chars,
              written |-> r.written \cup {Label("edge", col, w.at, value)}]
        ELSE r

\* The label of the last kept timestamp: what changed since prev_t, with
\* the realtime marker in front.
edge_label(r, ts, prev_t, i, is_realtime, time_offset) ==
    place_edge_label(r, Len(ts) - 1,
                     (IF is_realtime THEN <<"*">> ELSE <<>>)
                         \o shorted_now_string(prev_t, ts[Len(ts)],
                                               render_precision(i), time_offset))

\* `timestamp % gap != 0` with gap = render_gap * interval * 1000, computed
\* without forming the product: t is a multiple of a * b iff it is a
\* multiple of b and t / b is a multiple of a.
off_gap(t, i) ==
    \/ t % IntervalMillis(i) # 0
    \/ (t \div IntervalMillis(i)) % render_gap(i) # 0

\* The interior label `text`, padded with a blank on each side, written at
\* loop index idx without overlap, and the tick at column idx + 1.
place_interior_label(r, idx, text) ==
    LET w == overwrite_chars(r.labels, idx - Len(text) \div 2,
                             <<" ">> \o text \o <<" ">>, FALSE)
    IN  IF w.written
        THEN [rule |-> with_tick(r.rule, idx + 1), labels |-> w.chars,
              written |-> r.written \cup
                              {Label("interior", idx + 1, w.at, <<" ">> \o text \o <<" ">>)}]
        ELSE r

\* One pass of the loop body, for the pair (ts[idx + 1], ts[idx + 2]), idx
\* 0-based; the datetimes of `timestamps` are DateTime<Utc>, offset 0.
interior_label(r, ts, idx, i) ==
    IF off_gap(ts[idx + 2], i) THEN r
    ELSE place_interior_label(r, idx, diff_datetime_string(ts[idx + 1], ts[idx + 2], 0))

RECURSIVE interior_labels(_, _, _, _)
\* The loop over the pairs of consecutive timestamps, from idx (0-based) on.
interior_labels(r, ts, idx, i) ==
    IF idx + 2 > Len(ts) THEN r
    ELSE interior_labels(interior_label(r, ts, idx, i), ts, idx + 1, i)

\* XAxis::render at the wall-clock instant wall (Utc::now()): the rule row,
\* the label row, and the labels overwrite_chars reported as written.
XAxis_render(c, wall) ==
    LET ts == kept_timestamps(full_timestamps(c.min, c.max, c.interval), c.width)
        r0 == [rule |-> [k \in 1..c.width |-> "LINE"],
               labels |-> [k \in 1..c.width |-> " "],
               written |-> {}]
    IN  CASE Len(ts) = 0 -> r0
          [] Len(ts) = 1 ->
                 edge_label(r0, ts, wall, c.interval, c.is_realtime, c.time_offset)
          [] OTHER ->
                 interior_labels(edge_label(r0, ts, ts[Len(ts) - 1], c.interval,
                                            c.is_realtime, c.time_offset),
                                 ts, 0, c.interval)

\* ------------------------------------------------ XAxis::render on its own

MaxAxisWidth == 18
MaxSteps == 15

AxisWidths == 0..MaxAxisWidth
AxisIntervals == {OneSecond, OneMinute, FifteenMinutes, OneDay}
\* The first timestamp is a multiple of the interval: the interval before
\* the epoch, the epoch, the interval after it, and the one before the
\* first multiple of FifteenMinutes' label gap.
FirstSlots == {-1, 0, 1, 7}
\* FixedOffset: seconds east of UTC.
Offsets == {0, 3600}
\* Utc::now(), in milliseconds since the epoch.
Nows == {-1000, 0, 60000, 86400000}

\* tests::render and tests::render_bigger_than_width, moved to the first
\* hour of the epoch: minutes 1 to 60 in 60 and in 30 columns.
TestRenderCall ==
    [fn |-> "XAxis_render", width |-> 60, min |-> 60000, max |-> 3600000,
     interval |-> OneMinute, is_realtime |-> FALSE, time_offset |-> 0]
TestRenderBiggerCall ==
    [fn |-> "XAxis_render", width |-> 30, min |-> 60000, max |-> 3600000,
     interval |-> OneMinute, is_realtime |-> TRUE, time_offset |-> 0]

XAxisCalls ==
    {[fn |-> "XAxis_render", width |-> w, min |-> a * IntervalMillis(i),
      max |-> (a + n) * IntervalMillis(i), interval |-> i,
      is_realtime |-> r, time_offset |-> o] :
        w \in AxisWidths, i \in AxisIntervals, a \in FirstSlots, n \in 0..MaxSteps,
        r \in BOOLEAN, o \in Offsets}
    \cup {TestRenderCall, TestRenderBiggerCall}

InitXAxis ==
    /\ call \in XAxisCalls
    /\ ret = None
    /\ interval = OneSecond
    /\ candles = <<>>
    /\ area_width = YAxis_estimated_width
    /\ info = None
    /\ cursor_timestamp = None
    /\ rendered_candles = <<>>
    /\ needed = None
    /\ op = "init"
    /\ new_args = NoArgs
    /\ new_result = None
    /\ area_x = 0
    /\ area_y = 0
    /\ area_height = ReservedRows + 1
    /\ buf = {}
    /\ outcome = "none"

\* XAxis::new(..).render(time_offset), run at some instant of the wall clock.
XAxisRender ==
    /\ call.fn = "XAxis_render"
    /\ ret = None
    /\ \E wall \in Nows : ret' = Some(XAxis_render(call, wall))
    /\ op' = "XAxis_render"
    /\ UNCHANGED <<call, stateVars, chartVars, candleVars, drawVars, needed,
                   rendered_candles>>

NextXAxis == XAxisRender

SpecXAxis == InitXAxis /\ [][NextXAxis]_vars

\* ------------------------------------------------------------- properties

\* The fields of the info the last accepted render wrote (read only when info is Some).
earliest_allowed == Unwrap(info).cursor_first_timestamp
latest_allowed == Unwrap(info).cursor_last_timestamp
live_edge == Unwrap(info).latest_timestamp
step_millis == Unwrap(info).interval * 1000

Moves == {"try_move_backward", "try_move_forward"}

\* C1: whenever cursor_timestamp is Some(t), info is present and
\* cursor_first_timestamp <= t <= cursor_last_timestamp of that info, after
\* any interleaving of moves, resets, queries, input changes and renders.
C1_CursorWithinBounds ==
    IsSome(cursor_timestamp) =>
        /\ IsSome(info)
        /\ earliest_allowed <= Unwrap(cursor_timestamp)
        /\ Unwrap(cursor_timestamp) <= latest_allowed

\* A render left a scrolled cursor on the lower bound of a window that has
\* room to scroll.
C1_Witness ==
    /\ op = "render"
    /\ IsSome(cursor_timestamp)
    /\ Unwrap(cursor_timestamp) = earliest_allowed
    /\ earliest_allowed > 0
    /\ earliest_allowed < latest_allowed

\* C2: immediately after a render that was not rejected (set_info),
\* cursor_timestamp is never Some(info.latest_timestamp).
C2_NeverScrolledAtLiveEdgeAfterRender ==
    op = "render" => cursor_timestamp # Some(live_edge)

\* C3 as stated: with info present and the state Live, try_move_backward
\* enters Scrolled(latest_timestamp - interval * 1000).
C3_BackwardFromLiveOneInterval ==
    [][(op' = "try_move_backward" /\ IsSome(info) /\ cursor_timestamp = None)
           => cursor_timestamp' = Some(live_edge - step_millis)]_vars

\* C3 amended: with info present and the state Live, try_move_backward enters
\* Scrolled(max(latest_timestamp - interval * 1000, cursor_first_timestamp)).
C3_BackwardFromLiveClamped ==
    [][(op' = "try_move_backward" /\ IsSome(info) /\ cursor_timestamp = None)
           => cursor_timestamp' =
                  Some(IF live_edge - step_millis >= earliest_allowed
                       THEN live_edge - step_millis
                       ELSE earliest_allowed)]_vars

\* try_move_backward from Live landed one interval before the live edge,
\* above the lower bound.
C3_Witness ==
    /\ op = "try_move_backward"
    /\ IsSome(info)
    /\ cursor_timestamp = Some(live_edge - step_millis)
    /\ earliest_allowed < live_edge - step_millis

\* C4: from Scrolled(t) with info present, try_move_backward yields
\* Scrolled(max(t - interval * 1000, cursor_first_timestamp)) and
\* try_move_forward yields Scrolled(min(t + interval * 1000, cursor_last_timestamp)).
C4_MoveFromScrolled ==
    [][(IsSome(info) /\ IsSome(cursor_timestamp)) =>
           LET t == Unwrap(cursor_timestamp)
           IN  /\ op' = "try_move_backward" =>
                      cursor_timestamp' =
                          Some(IF t - step_millis >= earliest_allowed
                               THEN t - step_millis ELSE earliest_allowed)
               /\ op' = "try_move_forward" =>
                      cursor_timestamp' =
                          Some(IF t + step_millis <= latest_allowed
                               THEN t + step_millis ELSE latest_allowed)]_vars

\* try_move_backward moved a scrolled cursor (from Live it lands on
\* latest - interval or on the bound, never strictly between the bound and
\* latest - interval).
C4_Witness ==
    /\ op = "try_move_backward"
    /\ IsSome(info)
    /\ IsSome(cursor_timestamp)
    /\ earliest_allowed < Unwrap(cursor_timestamp)
    /\ Unwrap(cursor_timestamp) < live_edge - step_millis

\* C5: reset_cursor leaves cursor_timestamp = None and info unchanged, from
\* every state, rendered or not, wherever the cursor was.
C5_ResetReturnsToLive ==
    [][op' = "reset_cursor" => (cursor_timestamp' = None /\ info' = info)]_vars

\* reset_cursor has run on a rendered state.
C5_Witness ==
    /\ op = "reset_cursor"
    /\ IsSome(info)
    /\ cursor_timestamp = None
    /\ live_edge > earliest_allowed

\* C6: from Live after a render, under repeated try_move_backward with info
\* unchanged, the cursor never increases, stays at cursor_first_timestamp
\* once there, and is eventually at cursor_first_timestamp for good.
C6_BackwardSettlesAtFirst ==
    /\ [][IsSome(cursor_timestamp) =>
              Unwrap(cursor_timestamp') <= Unwrap(cursor_timestamp)]_vars
    /\ [][cursor_timestamp = Some(earliest_allowed) =>
              cursor_timestamp' = Some(earliest_allowed)]_vars
    /\ [][info' = info]_vars
    /\ <>[](cursor_timestamp = Some(earliest_allowed))

\* The cursor reached the lower bound in more than one call: the bound lies
\* more than one interval before the live edge.
C6_Witness ==
    /\ op = "try_move_backward"
    /\ cursor_timestamp = Some(earliest_allowed)
    /\ earliest_allowed < live_edge - step_millis

\* C7: two renders in a row (nothing in between, so the series and the area
\* are unchanged) leave info and cursor_timestamp after the second as they
\* were after the first.
C7_RenderIdempotent ==
    [][(op = "render" /\ op' = "render") =>
           (info' = info /\ cursor_timestamp' = cursor_timestamp)]_vars

\* C8: is_needed_previous_candles changes neither info nor the cursor and
\* returns false before any render, otherwise the need_previous_candles flag
\* of the info the last accepted render wrote; try_move_backward,
\* try_move_forward and reset_cursor leave info as it is.
C8_QueryIsPure ==
    [][/\ op' = "is_needed_previous_candles" =>
              /\ info' = info
              /\ cursor_timestamp' = cursor_timestamp
              /\ needed' = Some(IF info = None THEN FALSE
                                ELSE Unwrap(info).need_previous_candles)
       /\ op' \in Moves \cup {"reset_cursor"} => info' = info]_vars

\* The query answered true on a scrolled state.
C8_Witness ==
    /\ op = "is_needed_previous_candles"
    /\ needed = Some(TRUE)
    /\ IsSome(cursor_timestamp)

\* The candles of the series at or before t.
AtOrBefore(t) == {k \in 1..Len(candles) : candles[k] <= t}

\* C9: after a render that was not rejected, the slice drawn ends at the
\* last candle of the series when the state is Live, and at the latest
\* candle whose timestamp is <= t when the state is Scrolled(t).
C9_SliceEndsAtCursor ==
    op = "render" =>
        /\ rendered_candles # <<>>
        /\ LET end == rendered_candles[Len(rendered_candles)]
           IN  IF cursor_timestamp = None
               THEN end = candles[Len(candles)]
               ELSE /\ AtOrBefore(Unwrap(cursor_timestamp)) # {}
                    /\ end = candles[CHOOSE k \in AtOrBefore(Unwrap(cursor_timestamp)) :
                                        \A j \in AtOrBefore(Unwrap(cursor_timestamp)) : j <= k]

\* A render drew a window scrolled to a timestamp that falls in a gap of the
\* series, ending before the last candle.
C9_Witness ==
    /\ op = "render"
    /\ IsSome(cursor_timestamp)
    /\ \A k \in 1..Len(candles) : candles[k] # Unwrap(cursor_timestamp)
    /\ rendered_candles[Len(rendered_candles)] < candles[Len(candles)]

\* C10: Candle::new returns None exactly when high < low, and otherwise
\* Some of a candle carrying the five arguments as given, whatever open and
\* close are.
C10_CandleNew ==
    op = "Candle_new" =>
        /\ new_result = None <=> new_args.high < new_args.low
        /\ new_args.high >= new_args.low => new_result = Some(new_args)

\* A flat candle (high = low) whose open lies above high was accepted.
C10_Witness ==
    /\ op = "Candle_new"
    /\ IsSome(new_result)
    /\ new_args.high = new_args.low
    /\ new_args.open > new_args.high
    /\ Unwrap(new_result).open = new_args.open


\* What the contract calls a rejected render: an empty series, an area no
\* wider than the reserved value-axis width, or an area of height <= 3.
RejectedByContract ==
    \/ candles = <<>>
    \/ area_width <= YAxis_estimated_width
    \/ area_height <= ReservedRows

\* C11: a rejected render is a silent no-op: it returns normally, writes no
\* buffer cell and leaves the viewport state as it was.
C11_RejectedRenderIsNoOp ==
    [][(op' = "draw" /\ RejectedByContract)
         => /\ outcome' = "returned"
            /\ buf' = buf
            /\ info' = info
            /\ cursor_timestamp' = cursor_timestamp]_vars

\* The candle Candle::render was called with, and what it returned.
rendered == Unwrap(ret)
column == Unwrap(ret).column
WellFormedCandle ==
    /\ call.low <= call.open /\ call.open <= call.high
    /\ call.low <= call.close /\ call.close <= call.high
RenderReturned == op = "Candle_render" /\ ~rendered.panic

\* C12: the column of a candle with high > low and low <= open, close <= high,
\* rendered against an axis that contains it, has no void glyph strictly
\* between two non-void glyphs.
C12_GlyphColumnContiguous ==
    (op = "Candle_render" /\ call.high > call.low /\ WellFormedCandle)
        => /\ ~rendered.panic
           /\ ~ \E i, j, k \in 1..Len(column) :
                  /\ i < j /\ j < k
                  /\ column[i] # "VOID" /\ column[j] = "VOID" /\ column[k] # "VOID"

\* A candle with high > low whose column has void rows above and below at
\* least two glyph rows.
C12_Witness ==
    /\ RenderReturned /\ call.high > call.low /\ WellFormedCandle
    /\ Len(column) >= 4
    /\ column[1] = "VOID" /\ column[Len(column)] = "VOID"
    /\ column[2] # "VOID" /\ column[3] # "VOID"

FlatCandle ==
    call.open = call.high /\ call.high = call.low /\ call.low = call.close

\* The glyph of row y (0 at the bottom) of the returned column.
glyph_at(y) == column[Len(column) - y]

\* Row y contains the coordinate c: y <= c < y + 1.
row_contains(y, c) == f64_ge(c, y, 1) /\ f64_lt(c, y + 1, 1)

\* C13: a flat candle (open = high = low = close = v, v inside the axis
\* range) renders as exactly one non-void glyph, in the row that contains v;
\* every other row of its column is void.
C13_FlatCandleOneGlyph ==
    (op = "Candle_render" /\ FlatCandle)
        => /\ ~rendered.panic
           /\ \E y \in 0..(call.height - 1) :
                 /\ row_contains(y, calc_y(call_axis, call.high))
                 /\ glyph_at(y) # "VOID"
                 /\ \A z \in 0..(call.height - 1) : z # y => glyph_at(z) = "VOID"

\* The coordinate calc_y returned equals the rational p/q.
ReturnedRational(p, q) ==
    Unwrap(ret).k = "fin" /\ Unwrap(ret).n * q = p * Unwrap(ret).d

slot_column(t) ==
    YAxis_estimated_width + (t - rendered_candles[1]) \div IntervalMillis(interval)

DrawReturned == op = "draw" /\ outcome = "returned" /\ ~RejectedByContract

\* C15: data gaps are not compressed: every visible candle is drawn in the
\* body column of its interval slot, so k missing intervals between two
\* consecutive candles leave k blank columns between their glyph columns.
C15_GapsNotCompressed ==
    DrawReturned
        => \A k \in 1..Len(rendered_candles) :
              \A c \in buf :
                  (c.w = "candle" /\ c.ts = rendered_candles[k])
                      => c.x = slot_column(rendered_candles[k])

\* The two rows XAxis::render returned.
axis == Unwrap(ret)
rows_of(r) == <<r.rule, r.labels>>

\* C16: render is a pure function of its inputs: two calls given equal
\* inputs return equal rows, whatever the wall-clock time of each call.
C16_RenderIgnoresWallClock ==
    op = "XAxis_render"
        => \A wall \in Nows : rows_of(XAxis_render(call, wall)) = rows_of(axis)

\* The timestamps of the columns of the returned rows, column 0 first.
columns == kept_timestamps(full_timestamps(call.min, call.max, call.interval),
                           call.width)
star == IF call.is_realtime THEN <<"*">> ELSE <<>>

\* The text of label l as the display clock (call.time_offset) shows the
\* timestamp of its column.
in_display_timezone(l) ==
    IF l.kind = "interior"
    THEN l.text = <<" ">> \o diff_datetime_string(columns[l.col], columns[l.col + 1],
                                                  call.time_offset) \o <<" ">>
    ELSE \E prev \in (IF Len(columns) = 1 THEN Nows ELSE {columns[Len(columns) - 1]}) :
             l.text = star \o shorted_now_string(prev, columns[l.col + 1],
                                                 render_precision(call.interval),
                                                 call.time_offset)

\* C17: every time-axis label, the edge label and each interior label alike,
\* shows the date/time fields of its tick in the display timezone.
C17_LabelsInDisplayTimezone ==
    op = "XAxis_render" => \A l \in axis.written : in_display_timezone(l)

\* What the arguments say, without running render: the number of
\* timestamps min, min + interval, ... up to max, the number of columns that
\* show one, the latest of them, and the timestamp of column c (0-based).
axis_step == IntervalMillis(call.interval)
enumerated == (call.max - call.min) \div axis_step + 1
shown == min(enumerated, call.width)
latest_enumerated == call.min + (enumerated - 1) * axis_step
timestamp_of_column(c) == latest_enumerated - (shown - 1 - c) * axis_step

\* The texts the edge label can have: with one column shown the reference
\* instant is the wall clock, otherwise the timestamp of the column before.
edge_texts ==
    {star \o shorted_now_string(prev, latest_enumerated,
                                render_precision(call.interval), call.time_offset) :
        prev \in (IF shown = 1 THEN Nows ELSE {latest_enumerated - axis_step})}

\* The label row holds the text of label l at the cells l says it fills.
row_shows(l) ==
    /\ l.start >= 0 /\ l.start + Len(l.text) <= call.width
    /\ \A k \in 1..Len(l.text) : axis.labels[l.start + k] = l.text[k]

\* The edge label of the latest enumerated timestamp is in the last shown
\* column, with its tick.
EdgeDrawn ==
    \E l \in axis.written :
        /\ l.kind = "edge" /\ l.col = shown - 1 /\ l.text \in edge_texts
        /\ row_shows(l)
        /\ axis.rule[shown] = "TICK"

\* Every interior label is the one of the timestamp of its column.
InteriorOnColumns ==
    \A l \in axis.written :
        l.kind = "interior"
            => /\ l.col \in 1..(shown - 1)
               /\ ~off_gap(timestamp_of_column(l.col), call.interval)
               /\ l.text = <<" ">> \o diff_datetime_string(
                                          timestamp_of_column(l.col) - axis_step,
                                          timestamp_of_column(l.col), 0) \o <<" ">>

\* C18 as stated: when more timestamps are enumerated than width (a row of
\* at least one column), the
\* columns show the most recent width of them, the last column is the
\* latest enumerated timestamp and the edge label is drawn for it.
C18_EdgeLabelAlwaysDrawn ==
    (op = "XAxis_render" /\ enumerated > call.width /\ call.width >= 1)
        => /\ shown = call.width
           /\ InteriorOnColumns
           /\ EdgeDrawn

\* C18: the columns show the most recent timestamps enumerated from min in
\* steps of the interval (all of them when they fit), the last shown column
\* being the latest; the edge label is drawn for it when its text is no
\* longer than width, and otherwise there is no edge label.
C18_EdgeLabelWhenItFits ==
    (op = "XAxis_render" /\ shown >= 1)
        => /\ InteriorOnColumns
           /\ \/ EdgeDrawn
              \/ /\ \A l \in axis.written : l.kind # "edge"
                 /\ \E t \in edge_texts : Len(t) > call.width
           /\ \A l \in axis.written : l.kind = "edge" => EdgeDrawn

\* tests::render_bigger_than_width: 60 timestamps in 30 columns, the edge
\* label and an interior label drawn.
C18_Witness ==
    /\ op = "XAxis_render" /\ call = TestRenderBiggerCall
    /\ enumerated > call.width
    /\ EdgeDrawn
    /\ \E l \in axis.written : l.kind = "interior"

\* Label l is the label of the timestamp of its column.
labelled_for_column(l) ==
    IF l.kind = "edge"
    THEN l.col = shown - 1 /\ l.text \in edge_texts
    ELSE /\ l.col \in 1..(shown - 1)
         /\ l.text = <<" ">> \o diff_datetime_string(
                                    timestamp_of_column(l.col) - axis_step,
                                    timestamp_of_column(l.col), 0) \o <<" ">>

\* C19: the rule row has the tick character at column c exactly when a label
\* for the timestamp of column c was written into the label row (and is
\* there), and the horizontal-line character in every other column.
C19_TickIffLabelWritten ==
    op = "XAxis_render"
        => /\ Len(axis.rule) = call.width
           /\ \A c \in 0..(call.width - 1) :
                 axis.rule[c + 1] = (IF \E l \in axis.written : l.col = c
                                     THEN "TICK" ELSE "LINE")
           /\ \A l \in axis.written : labelled_for_column(l) /\ row_shows(l)

\* tests::render: four ticks, each over a written label, lines elsewhere.
C19_Witness ==
    /\ op = "XAxis_render" /\ call = TestRenderCall
    /\ {c \in 0..(call.width - 1) : axis.rule[c + 1] = "TICK"} = {14, 29, 44, 59}
    /\ {l.col : l \in axis.written} = {14, 29, 44, 59}

\* The cells (1-based) label l fills, and those where it shows a character
\* other than a blank.
cells_of(l) == (l.start + 1)..(l.start + Len(l.text))
text_cells_of(l) == {k \in cells_of(l) : l.text[k - l.start] # " "}

\* C20 as stated: the edge label appears intact and no two written labels
\* share a cell of the label row.
C20_NoSharedCell ==
    op = "XAxis_render"
        => /\ \A l \in axis.written : row_shows(l)
           /\ \A l1, l2 \in axis.written :
                 l1 # l2 => cells_of(l1) \cap cells_of(l2) = {}

\* C20: label collisions are resolved by suppression: every written label,
\* the edge label included, stands intact in the label row, no two written
\* labels share a cell where either shows a character (they can share a
\* blank of their padding), and the row holds nothing but written labels.
C20_NoSharedCharacter ==
    op = "XAxis_render"
        => /\ \A l \in axis.written : row_shows(l)
           /\ \A l1, l2 \in axis.written :
                 l1 # l2 => text_cells_of(l1) \cap cells_of(l2) = {}
           /\ \A k \in 1..call.width :
                 axis.labels[k] # " "
                     => \E l \in axis.written : k \in text_cells_of(l)

\* An interior label was dropped because the edge label stood in its range:
\* the last column is a multiple of the label gap, and only the edge label
\* is there.
C20_Witness ==
    /\ op = "XAxis_render" /\ shown >= 2
    /\ ~off_gap(latest_enumerated, call.interval)
    /\ \E l \in axis.written : l.kind = "edge" /\ Len(l.text) > 0 /\ row_shows(l)
    /\ \A l \in axis.written : l.kind = "interior" => l.col # shown - 1


\* The rows YAxis::render returned, and how a row reads.
axis_rows == Unwrap(ret)
labelled(row) == row[Len(row) - 1] = "BRANCH"
label_text(row) == SubSeq(row, 2, Len(row) - 3)
blank(row) ==
    /\ row[Len(row) - 1] = "BAR"
    /\ \A k \in 1..Len(row) : k # Len(row) - 1 => row[k] = " "

RECURSIVE read_digits(_, _, _)
\* The number the digits of text spell from position k on, the point skipped.
read_digits(text, k, acc) ==
    IF k > Len(text) THEN acc
    ELSE IF text[k] \in {" ", "-", "."} THEN read_digits(text, k + 1, acc)
    ELSE read_digits(text, k + 1,
                     10 * acc + (CHOOSE j \in 0..9 : Digits[j + 1] = text[k]))

\* The label of row i reads max - i * unit to the last place of the format:
\* it is N / 10^scale with | N / 10^scale - (max - i * unit) | <= 1 / (2 * 10^scale).
label_reads_row_value(row, i) ==
    LET N == (IF \E k \in 1..Len(row) : row[k] = "-" THEN -1 ELSE 1)
                 * read_digits(label_text(row), 1, 0)
        V == call.max * call.height - i * (call.max - call.min)
        e == 2 * (N * call.height - V * pow10(call.numeric.scale))
    IN  e <= call.height /\ -e <= call.height

\* C21: under the Accurate grid YAxis::render returns height rows, top row
\* first; row i carries a tick label iff i mod 4 = 0, the label reading
\* max - i * unit; every other row is blank padding, and all rows have the
\* same width.
C21_AccurateRows ==
    op = "YAxis_render"
        => /\ Len(axis_rows) = call.height
           /\ \A k \in 1..Len(axis_rows) :
                 /\ labelled(axis_rows[k]) <=> (k - 1) % 4 = 0
                 /\ labelled(axis_rows[k]) => label_reads_row_value(axis_rows[k], k - 1)
                 /\ ~labelled(axis_rows[k]) => blank(axis_rows[k])
                 /\ Len(axis_rows[k]) = Len(axis_rows[1])

\* The cell span [y, y + 1) of row y lies entirely outside
\* [calc_y(low), calc_y(high)]: it ends at or below the low, or begins
\* above the high.
row_outside(y) ==
    \/ f64_ge(calc_y(call_axis, call.low), y + 1, 1)
    \/ f64_lt(calc_y(call_axis, call.high), y, 1)

bodyTop == ordered_max(calc_y(call_axis, call.open), calc_y(call_axis, call.close))
bodyBottom == ordered_min(calc_y(call_axis, call.open), calc_y(call_axis, call.close))

\* C23 as stated: every integer row y with bodyBottom < y < bodyTop gets the
\* full-body glyph.
C23_RowInsideBodyIsBody ==
    RenderReturned
        => \A y \in 0..(call.height - 1) :
              (f64_lt(bodyBottom, y, 1) /\ f64_gt(bodyTop, y, 1)) => glyph_at(y) = "BODY"

\* C23: every row whose whole cell lies inside the body,
\* bodyBottom <= y and y + 1 <= bodyTop, gets the full-body glyph.
C23_CellInsideBodyIsBody ==
    RenderReturned
        => \A y \in 0..(call.height - 1) :
              (f64_le(bodyBottom, y, 1) /\ f64_ge(bodyTop, y + 1, 1)) => glyph_at(y) = "BODY"

\* tests::simple_candle: the body spans rows 1.5 to 3.5 of 5; row 2, whose
\* cell lies inside it, is the one body glyph of the column.
C23_Witness ==
    /\ RenderReturned /\ call = TestCandleCall
    /\ f64_le(bodyBottom, 2, 1) /\ f64_ge(bodyTop, 3, 1)
    /\ column = <<"WICK", "WICK", "BODY", "WICK", "WICK">>

\* C24: for every candle with low <= open, close <= high inside the axis
\* range, no two vertically adjacent glyphs of the column form a pair that
\* test_continuous_graph rejects.
C24_NoDisallowedPair ==
    (RenderReturned /\ WellFormedCandle)
        => ~ \E k \in 1..(Len(column) - 1) : bad_pair(column[k], column[k + 1])

\* A well-formed candle whose column runs through an upper wick, the
\* transition into the body, the body, the transition out of it and a lower
\* wick end.
C24_Witness ==
    /\ RenderReturned /\ WellFormedCandle
    /\ \E k \in 1..(Len(column) - 1) :
          column[k] \in {"UP", "HALF_WICK_BOTTOM", "WICK"} /\ column[k + 1] = "BODY"
    /\ \E k \in 1..(Len(column) - 1) :
          column[k] = "BODY" /\ column[k + 1] \in {"DOWN", "HALF_WICK_TOP", "WICK"}

\* A candle Candle::new accepts: high >= low.
AcceptedByNew == call.high >= call.low

\* C27 as stated: the assertions of Candle::render hold for every candle
\* Candle::new accepts, so rendering an accepted candle never aborts.
C27_AcceptedCandleNeverAborts ==
    (op = "Candle_render" /\ AcceptedByNew)
        => /\ render_asserts_hold(call_axis, call_candle)
           /\ ~rendered.panic

\* C25: once info is present, try_move_backward and try_move_forward leave
\* cursor_timestamp = Some, and a Some cursor becomes None only through
\* reset_cursor or a render.
C25_MovesLeaveScrolled ==
    [][/\ (op' \in Moves /\ IsSome(info)) => IsSome(cursor_timestamp')
       /\ (IsSome(cursor_timestamp) /\ ~IsSome(cursor_timestamp'))
             => op' \in {"reset_cursor", "render"}]_vars

\* try_move_forward has landed exactly on the live edge and the state is
\* Scrolled.
C25_Witness ==
    /\ op = "try_move_forward" /\ IsSome(info)
    /\ cursor_timestamp = Some(live_edge)

\* C26: a render that returns has written only cells inside the given
\* area: every cell written lies in
\* [area.x, area.x + width) x [area.y, area.y + height).
C26_WritesInsideArea ==
    outcome = "returned"
        => \A c \in buf :
              /\ area_x <= c.x /\ c.x < area_x + area_width
              /\ area_y <= c.y /\ c.y < area_y + area_height
====
